---- MODULE Spec2Model ----
(***************************************************************************)
(* Model of calculate_compensation (src/hospitalist_calculator.py), the    *)
(* A+B compensation engine of the hospitalist calculator.                  *)
(*                                                                         *)
(* Numbers.  The source computes in Python floats.  The model computes the *)
(* same expressions in exact rational arithmetic: FTE and shift quantities *)
(* are normalised fractions [n, d] of integers, dollar amounts are         *)
(* fractions whose numerator is an arbitrary-precision integer (the        *)
(* numerators exceed 32 bits).  Decimal literals of the source (1.25,      *)
(* 0.75, ...) are the fractions they denote.  Dates are day ordinals       *)
(* counted from FISCAL_YEAR_START.                                         *)
(***************************************************************************)
EXTENDS Integers, Sequences, FiniteSets, TLC

VARIABLES inp, res, prev, pc

vars == <<inp, res, prev, pc>>

(***************************************************************************)
(* Integer helpers                                                         *)
(***************************************************************************)
Abs(x) == IF x < 0 THEN -x ELSE x

Max(a, b) == IF a >= b THEN a ELSE b

Min(a, b) == IF a <= b THEN a ELSE b

RECURSIVE GCD(_, _)
GCD(a, b) == IF b = 0 THEN a ELSE GCD(b, a % b)

(***************************************************************************)
(* Small fractions: [n |-> numerator, d |-> denominator > 0], normalised   *)
(***************************************************************************)
Rat(n, d) ==
  LET g == GCD(Abs(n), d)
  IN  [n |-> n \div g, d |-> d \div g]

RatInt(k) == [n |-> k, d |-> 1]

RatAdd(a, b) ==
  LET g == GCD(a.d, b.d)
  IN  Rat(a.n * (b.d \div g) + b.n * (a.d \div g), (a.d \div g) * b.d)

RatNeg(a) == [n |-> -a.n, d |-> a.d]

RatSub(a, b) == RatAdd(a, RatNeg(b))

RatMul(a, b) ==
  LET g1 == GCD(Abs(a.n), b.d)
      g2 == GCD(Abs(b.n), a.d)
  IN  Rat((a.n \div g1) * (b.n \div g2), (a.d \div g2) * (b.d \div g1))

\* a / k for an integer k > 0
RatDivInt(a, k) == RatMul(a, [n |-> 1, d |-> k])

RatLeq(a, b) == a.n * b.d <= b.n * a.d

RatLess(a, b) == a.n * b.d < b.n * a.d

\* Python's max(0, x): x when x > 0, else the first argument 0
RatMax0(a) == IF a.n > 0 THEN a ELSE RatInt(0)

\* int(x) for x >= 0: truncation, which is the floor there
RatTrunc(a) == IF a.n >= 0 THEN a.n \div a.d ELSE -((-a.n) \div a.d)

(***************************************************************************)
(* Arbitrary-precision integers: [neg, mag], mag a little-endian sequence  *)
(* of limbs in base LimbBase without leading zero limbs                    *)
(***************************************************************************)
LimbBase == 128 * 128

RECURSIVE MagTrim(_)
MagTrim(m) ==
  IF m = <<>> THEN <<>>
  ELSE IF m[Len(m)] = 0 THEN MagTrim(SubSeq(m, 1, Len(m) - 1))
  ELSE m

RECURSIVE MagOfNat(_)
MagOfNat(k) ==
  IF k = 0 THEN <<>> ELSE <<k % LimbBase>> \o MagOfNat(k \div LimbBase)

RECURSIVE MagAddC(_, _, _)
MagAddC(a, b, c) ==
  IF a = <<>> /\ b = <<>> THEN (IF c = 0 THEN <<>> ELSE <<c>>)
  ELSE LET x == IF a = <<>> THEN 0 ELSE Head(a)
           y == IF b = <<>> THEN 0 ELSE Head(b)
           s == x + y + c
       IN  <<s % LimbBase>> \o
           MagAddC(IF a = <<>> THEN <<>> ELSE Tail(a),
                   IF b = <<>> THEN <<>> ELSE Tail(b), s \div LimbBase)

MagAdd(a, b) == MagAddC(a, b, 0)

\* a - b for a >= b
RECURSIVE MagSubB(_, _, _)
MagSubB(a, b, c) ==
  IF a = <<>> THEN <<>>
  ELSE LET y == IF b = <<>> THEN 0 ELSE Head(b)
           s == Head(a) - y - c
       IN  <<s % LimbBase>> \o
           MagSubB(Tail(a), IF b = <<>> THEN <<>> ELSE Tail(b),
                   IF s < 0 THEN 1 ELSE 0)

MagSub(a, b) == MagTrim(MagSubB(a, b, 0))

\* -1, 0, 1 as a < b, a = b, a > b
RECURSIVE MagCmpFrom(_, _, _)
MagCmpFrom(a, b, i) ==
  IF i = 0 THEN 0
  ELSE IF a[i] < b[i] THEN -1
  ELSE IF a[i] > b[i] THEN 1
  ELSE MagCmpFrom(a, b, i - 1)

MagCmp(a, b) ==
  IF Len(a) < Len(b) THEN -1
  ELSE IF Len(a) > Len(b) THEN 1
  ELSE MagCmpFrom(a, b, Len(a))

\* a * k for 0 <= k < 2^17
RECURSIVE MagMulC(_, _, _)
MagMulC(a, k, c) ==
  IF a = <<>> THEN MagOfNat(c)
  ELSE LET s == Head(a) * k + c
       IN  <<s % LimbBase>> \o MagMulC(Tail(a), k, s \div LimbBase)

MagMulSmall(a, k) == IF k = 0 THEN <<>> ELSE MagMulC(a, k, 0)

\* <<quotient, remainder>> of a by k, 0 < k < 2^17, from the top limb down
RECURSIVE MagDivR(_, _, _, _)
MagDivR(a, k, i, r) ==
  IF i = 0 THEN <<<<>>, r>>
  ELSE LET cur  == r * LimbBase + a[i]
           rest == MagDivR(a, k, i - 1, cur % k)
       IN  <<rest[1] \o <<cur \div k>>, rest[2]>>

MagDivMod(a, k) ==
  LET qr == MagDivR(a, k, Len(a), 0)
  IN  <<MagTrim(qr[1]), qr[2]>>

RECURSIVE MagToNat(_)
MagToNat(m) == IF m = <<>> THEN 0 ELSE Head(m) + LimbBase * MagToNat(Tail(m))

BigOfInt(k) == [neg |-> k < 0, mag |-> MagOfNat(Abs(k))]

BigZero == BigOfInt(0)

BigNeg(a) == IF a.mag = <<>> THEN a ELSE [neg |-> ~a.neg, mag |-> a.mag]

BigAdd(a, b) ==
  IF a.neg = b.neg THEN [neg |-> a.neg, mag |-> MagAdd(a.mag, b.mag)]
  ELSE LET c == MagCmp(a.mag, b.mag)
       IN  IF c = 0 THEN BigZero
           ELSE IF c > 0 THEN [neg |-> a.neg, mag |-> MagSub(a.mag, b.mag)]
           ELSE [neg |-> b.neg, mag |-> MagSub(b.mag, a.mag)]

\* a * k for an integer |k| < 2^17
BigMulSmall(a, k) ==
  IF k = 0 \/ a.mag = <<>> THEN BigZero
  ELSE [neg |-> (a.neg # (k < 0)), mag |-> MagMulSmall(a.mag, Abs(k))]

BigCmp(a, b) ==
  IF a.neg /\ ~b.neg THEN -1
  ELSE IF ~a.neg /\ b.neg THEN 1
  ELSE IF a.neg THEN MagCmp(b.mag, a.mag)
  ELSE MagCmp(a.mag, b.mag)


\* a * b, schoolbook over the limbs of b
RECURSIVE MagMul(_, _)
MagMul(a, b) ==
  IF a = <<>> \/ b = <<>> THEN <<>>
  ELSE MagAdd(MagMulSmall(a, Head(b)), MagTrim(<<0>> \o MagMul(a, Tail(b))))

BigMul(a, b) ==
  IF a.mag = <<>> \/ b.mag = <<>> THEN BigZero
  ELSE [neg |-> (a.neg # b.neg), mag |-> MagMul(a.mag, b.mag)]

(***************************************************************************)
(* Dollar amounts: [n |-> numerator (arbitrary precision), d |-> sequence  *)
(* of positive integers < 2^17 whose product is the denominator]           *)
(***************************************************************************)
RECURSIVE BigProd(_)
BigProd(ks) ==
  IF ks = <<>> THEN BigOfInt(1) ELSE BigMulSmall(BigProd(Tail(ks)), Head(ks))

AmtInt(k) == [n |-> BigOfInt(k), d |-> <<>>]

AmtOfRat(r) ==
  [n |-> BigOfInt(r.n), d |-> IF r.d = 1 THEN <<>> ELSE <<r.d>>]

AmtMulRat(a, r) ==
  [n |-> BigMul(a.n, BigOfInt(r.n)),
   d |-> IF r.d = 1 THEN a.d ELSE a.d \o <<r.d>>]

AmtDivInt(a, k) == [n |-> a.n, d |-> a.d \o <<k>>]

AmtAdd(a, b) ==
  [n |-> BigAdd(BigMul(a.n, BigProd(b.d)), BigMul(b.n, BigProd(a.d))),
   d |-> a.d \o b.d]

AmtNeg(a) == [n |-> BigNeg(a.n), d |-> a.d]

AmtSub(a, b) == AmtAdd(a, AmtNeg(b))

\* -1, 0, 1 as a < b, a = b, a > b
AmtCmp(a, b) == BigCmp(BigMul(a.n, BigProd(b.d)), BigMul(b.n, BigProd(a.d)))

AmtEq(a, b) == AmtCmp(a, b) = 0

AmtIsZero(a) == a.n.mag = <<>>

AmtAbs(a) == [n |-> [neg |-> FALSE, mag |-> a.n.mag], d |-> a.d]

\* <<m divided by every k of ks in turn (floor), whether every division was exact>>
RECURSIVE MagDivAll(_, _)
MagDivAll(m, ks) ==
  IF ks = <<>> THEN <<m, TRUE>>
  ELSE LET qr   == MagDivMod(m, Head(ks))
           rest == MagDivAll(qr[1], Tail(ks))
       IN  <<rest[1], rest[2] /\ qr[2] = 0>>

\* Python's built-in round(x) of one argument: the nearest integer, an exact
\* half going to the even neighbour
PyRound(a) ==
  LET twice == MagAdd(MagMulSmall(a.n.mag, 2), BigProd(a.d).mag)
      qe    == MagDivAll(twice, <<2>> \o a.d)
      up    == MagToNat(qe[1])
      q     == IF qe[2] /\ up % 2 = 1 THEN up - 1 ELSE up
  IN  IF a.n.neg THEN -q ELSE q


(***************************************************************************)
(* Constants of the source                                                 *)
(***************************************************************************)
\* date(2026, 7, 1), the origin of the day ordinals
FISCAL_YEAR_START == 0

\* date(2027, 6, 30): 364 days after FISCAL_YEAR_START
FISCAL_YEAR_END == 364

FISCAL_YEAR_START_year == 2026

TOTAL_FY_DAYS == (FISCAL_YEAR_END - FISCAL_YEAR_START) + 1

BASE_SHIFT_EQUIVALENTS == 183

STRENGTH_OF_SCHEDULE_BASE == 198500

EXPERIENCE_ADJUSTMENT_PER_YEAR == 2000

A_BASE_FOR_B_CALC == 105000

OTHER_DEPT_RATE == 240000

ADDICTION_BOARD_BONUS == 20000

A_COMPONENT_DEFAULT == 105000

A_COMPONENT_BY_RANK ==
  [r \in {"Assistant Professor", "Associate Professor", "Professor",
          "TFP NFP Physician"} |->
     CASE r = "Assistant Professor" -> 105000
       [] r = "Associate Professor" -> 120750
       [] r = "Professor"           -> 136500
       [] r = "TFP NFP Physician"   -> 105000]

SHIFT_TYPES ==
  [t \in {"Teaching", "Direct Care Days", "Women & Families Days",
          "Episcopal", "Clinic", "Addiction"} |->
     CASE t = "Teaching"              -> [ratio |-> Rat(1, 1),  sos |-> Rat(1, 1)]
       [] t = "Direct Care Days"      -> [ratio |-> Rat(1, 1),  sos |-> Rat(5, 4)]
       [] t = "Women & Families Days" -> [ratio |-> Rat(6, 5),  sos |-> Rat(5, 4)]
       [] t = "Episcopal"             -> [ratio |-> Rat(3, 4),  sos |-> Rat(21, 20)]
       [] t = "Clinic"                -> [ratio |-> Rat(9, 10), sos |-> Rat(9, 8)]
       [] t = "Addiction"             -> [ratio |-> Rat(1, 1),  sos |-> Rat(1, 1)]]

NIGHT_STANDARD_THRESHOLD == 21

NIGHT_STANDARD_SOS == Rat(3, 2)

NIGHT_PREMIUM_SOS == Rat(7, 4)

(***************************************************************************)
(* calculate_compensation, step by step                                    *)
(***************************************************************************)
\* dict.get(key, default)
Get(d, key, default) == IF key \in DOMAIN d THEN d[key] ELSE default

\* Mutant: the day count from start_date to the year's end taken exclusive
days_in_fy_exclusive(start_date) ==
  IF start_date <= FISCAL_YEAR_START THEN TOTAL_FY_DAYS
  ELSE IF start_date > FISCAL_YEAR_END THEN 0
  ELSE FISCAL_YEAR_END - start_date

days_in_fy(start_date) ==
  IF start_date <= FISCAL_YEAR_START THEN TOTAL_FY_DAYS
  ELSE IF start_date > FISCAL_YEAR_END THEN 0
  ELSE (FISCAL_YEAR_END - start_date) + 1

effective_days(start_date, leave_days) ==
  Max(0, days_in_fy(start_date) - leave_days)

time_fraction(start_date, leave_days) ==
  Rat(effective_days(start_date, leave_days), TOTAL_FY_DAYS)

addiction_fte(shift_days) ==
  Rat(Get(shift_days, "Addiction", 0), BASE_SHIFT_EQUIVALENTS)

\* Mutant: the subtraction without the clamp at zero
hm_fte_unclamped(status_fte, other_dept_fte, shift_days) ==
  RatSub(RatSub(status_fte, other_dept_fte), addiction_fte(shift_days))

hm_fte(status_fte, other_dept_fte, shift_days) ==
  RatMax0(RatSub(RatSub(status_fte, other_dept_fte), addiction_fte(shift_days)))

\* Mutant: the subtraction without the clamp at zero
actual_hm_fte_unclamped(status_fte, non_clinical_fte, other_dept_fte, shift_days) ==
  RatSub(RatSub(RatSub(status_fte, non_clinical_fte), other_dept_fte),
         addiction_fte(shift_days))

actual_hm_fte(status_fte, non_clinical_fte, other_dept_fte, shift_days) ==
  RatMax0(RatSub(RatSub(RatSub(status_fte, non_clinical_fte), other_dept_fte),
                 addiction_fte(shift_days)))

\* Mutant: Python's round(), which sends an exact half to the even neighbour
shift_equivalents_bankers(clinical_fte) ==
  PyRound(AmtOfRat(RatMul(clinical_fte, RatInt(BASE_SHIFT_EQUIVALENTS))))

\* int(clinical_fte * BASE_SHIFT_EQUIVALENTS + 0.5)
shift_equivalents(clinical_fte) ==
  RatTrunc(RatAdd(RatMul(clinical_fte, RatInt(BASE_SHIFT_EQUIVALENTS)), Rat(1, 2)))

\* Mutant: the loop body without the skip of "Nights" and "Addiction"
ShiftLoopBody_noskip(acc, shift_type, days) ==
  IF shift_type \in DOMAIN SHIFT_TYPES THEN
    LET config    == SHIFT_TYPES[shift_type]
        shift_eq  == RatMul(RatInt(days), config.ratio)
        sos_value == RatMul(shift_eq, config.sos)
    IN  [shift_breakdown |->
           acc.shift_breakdown @@
           (shift_type :> [days |-> days, shift_eq |-> shift_eq,
                           sos_value |-> sos_value]),
         total_sos_value |-> RatAdd(acc.total_sos_value, sos_value),
         total_shift_eq  |-> RatAdd(acc.total_shift_eq, shift_eq)]
  ELSE acc

\* One iteration of "for shift_type, days in shift_days.items()"
ShiftLoopBody(acc, shift_type, days) ==
  IF shift_type = "Nights" \/ shift_type = "Addiction" THEN acc
  ELSE IF shift_type \in DOMAIN SHIFT_TYPES THEN
    LET config    == SHIFT_TYPES[shift_type]
        shift_eq  == RatMul(RatInt(days), config.ratio)
        sos_value == RatMul(shift_eq, config.sos)
    IN  [shift_breakdown |->
           acc.shift_breakdown @@
           (shift_type :> [days |-> days, shift_eq |-> shift_eq,
                           sos_value |-> sos_value]),
         total_sos_value |-> RatAdd(acc.total_sos_value, sos_value),
         total_shift_eq  |-> RatAdd(acc.total_shift_eq, shift_eq)]
  ELSE acc

\* The loop over the items of shift_days left to visit
RECURSIVE ShiftLoop(_, _, _)
ShiftLoop(acc, shift_days, todo) ==
  IF todo = {} THEN acc
  ELSE LET shift_type == CHOOSE t \in todo : TRUE
       IN  ShiftLoop(ShiftLoopBody(acc, shift_type, shift_days[shift_type]),
                     shift_days, todo \ {shift_type})

\* Mutant: every night paid at the standard rate, no premium tier
ProcessNights_flat(acc, shift_days) ==
  LET night_days == Get(shift_days, "Nights", 0)
  IN  IF night_days > 0 THEN
        LET standard_sos == RatMul(RatInt(night_days), NIGHT_STANDARD_SOS)
        IN  [shift_breakdown |->
               ("Standard Nights (first 21)" :>
                  [days |-> night_days, shift_eq |-> RatInt(night_days),
                   sos_value |-> standard_sos]) @@
               ("Premium Nights (after 21)" :>
                  [days |-> 0, shift_eq |-> RatInt(0),
                   sos_value |-> RatInt(0)]) @@
               acc.shift_breakdown,
             total_sos_value |-> RatAdd(acc.total_sos_value, standard_sos),
             total_shift_eq |-> RatAdd(acc.total_shift_eq, RatInt(night_days))]
      ELSE acc

\* "Process nights (tiered)"
ProcessNights(acc, shift_days) ==
  LET night_days == Get(shift_days, "Nights", 0)
  IN  IF night_days > 0 THEN
        LET standard_nights == Min(night_days, NIGHT_STANDARD_THRESHOLD)
            premium_nights  == Max(0, night_days - NIGHT_STANDARD_THRESHOLD)
            standard_sos    == RatMul(RatInt(standard_nights), NIGHT_STANDARD_SOS)
            premium_sos     == RatMul(RatInt(premium_nights), NIGHT_PREMIUM_SOS)
        IN  [shift_breakdown |->
               ("Standard Nights (first 21)" :>
                  [days |-> standard_nights, shift_eq |-> RatInt(standard_nights),
                   sos_value |-> standard_sos]) @@
               ("Premium Nights (after 21)" :>
                  [days |-> premium_nights, shift_eq |-> RatInt(premium_nights),
                   sos_value |-> premium_sos]) @@
               acc.shift_breakdown,
             total_sos_value |->
               RatAdd(acc.total_sos_value, RatAdd(standard_sos, premium_sos)),
             total_shift_eq |-> RatAdd(acc.total_shift_eq, RatInt(night_days))]
      ELSE acc

\* shift_breakdown, total_sos_value and total_shift_eq after both passes
ShiftTotals(shift_days) ==
  ProcessNights(
    ShiftLoop([shift_breakdown |-> <<>>, total_sos_value |-> RatInt(0),
               total_shift_eq |-> RatInt(0)],
              shift_days, DOMAIN shift_days),
    shift_days)

\* Mutant: the fallback for no shift equivalents is 0 instead of 1.0
sos_multiplier_fallback0(total_sos_value, shift_eqs) ==
  IF shift_eqs > 0 THEN RatDivInt(total_sos_value, shift_eqs) ELSE RatInt(0)

\* Mutant: the division guarded by max(1, shift_equivalents), no fallback
sos_multiplier_max1(total_sos_value, shift_eqs) ==
  RatDivInt(total_sos_value, Max(1, shift_eqs))

sos_multiplier(total_sos_value, shift_eqs) ==
  IF shift_eqs > 0 THEN RatDivInt(total_sos_value, shift_eqs) ELSE RatInt(1)

a_component(academic_rank) ==
  Get(A_COMPONENT_BY_RANK, academic_rank, A_COMPONENT_DEFAULT)

a_fte_adjusted(academic_rank, status_fte) ==
  RatMul(RatInt(a_component(academic_rank)), status_fte)

\* Mutant: component A prorated by the time fraction
a_fte_adjusted_prorated(i) ==
  RatMul(a_fte_adjusted(i.academic_rank, i.status_fte),
         time_fraction(i.start_date, i.leave_days))

\* a_fte_adjusted as the source derives it from the inputs: an annual amount
a_fte_adjusted_annual(i) ==
  a_fte_adjusted(i.academic_rank, i.status_fte)

experience_years(graduation_year) ==
  Max(0, FISCAL_YEAR_START_year - graduation_year)

b_adjusted(multiplier) ==
  AmtMulRat(AmtInt(STRENGTH_OF_SCHEDULE_BASE), multiplier)

b_with_experience(multiplier, graduation_year) ==
  AmtAdd(b_adjusted(multiplier),
         AmtInt(experience_years(graduation_year) * EXPERIENCE_ADJUSTMENT_PER_YEAR))

\* b_with_experience * hm_fte - A_BASE_FOR_B_CALC * status_fte
b_unrounded(bwe, hm, status_fte) ==
  AmtSub(AmtMulRat(bwe, hm), AmtMulRat(AmtInt(A_BASE_FOR_B_CALC), status_fte))

\* round((...) / 100) * 100
b_fte_adjusted(bwe, hm, status_fte) ==
  PyRound(AmtDivInt(b_unrounded(bwe, hm, status_fte), 100)) * 100

other_dept_comp(shift_days, other_dept_fte, tf) ==
  AmtMulRat(AmtMulRat(AmtInt(OTHER_DEPT_RATE),
                      RatAdd(addiction_fte(shift_days), other_dept_fte)), tf)

addiction_board_bonus(certified, status_fte, tf) ==
  IF certified
  THEN AmtMulRat(AmtMulRat(AmtInt(ADDICTION_BOARD_BONUS), status_fte), tf)
  ELSE AmtInt(0)

\* Mutant: component B prorated by the time fraction
b_component_prorated(i) ==
  LET tf     == time_fraction(i.start_date, i.leave_days)
      hm     == hm_fte(i.status_fte, i.other_dept_fte, i.shift_days)
      actual == actual_hm_fte(i.status_fte, i.non_clinical_fte,
                              i.other_dept_fte, i.shift_days)
      se     == shift_equivalents(RatMul(actual, tf))
      mult   == sos_multiplier(ShiftTotals(i.shift_days).total_sos_value, se)
  IN  b_fte_adjusted(AmtMulRat(b_with_experience(mult, i.graduation_year), tf),
                     hm, i.status_fte)

\* b_fte_adjusted as the source derives it from the inputs
b_component(i) ==
  LET tf     == time_fraction(i.start_date, i.leave_days)
      hm     == hm_fte(i.status_fte, i.other_dept_fte, i.shift_days)
      actual == actual_hm_fte(i.status_fte, i.non_clinical_fte,
                              i.other_dept_fte, i.shift_days)
      se     == shift_equivalents(RatMul(actual, tf))
      mult   == sos_multiplier(ShiftTotals(i.shift_days).total_sos_value, se)
  IN  b_fte_adjusted(b_with_experience(mult, i.graduation_year), hm,
                     i.status_fte)

calculate_compensation(i) ==
  LET tf       == time_fraction(i.start_date, i.leave_days)
      hm       == hm_fte(i.status_fte, i.other_dept_fte, i.shift_days)
      actual   == actual_hm_fte(i.status_fte, i.non_clinical_fte,
                                i.other_dept_fte, i.shift_days)
      clinical == RatMul(actual, tf)
      se       == shift_equivalents(clinical)
      totals   == ShiftTotals(i.shift_days)
      mult     == sos_multiplier(totals.total_sos_value, se)
      a_adj    == a_fte_adjusted_annual(i)
      bwe      == b_with_experience(mult, i.graduation_year)
      b_adj    == b_component(i)
      odc      == other_dept_comp(i.shift_days, i.other_dept_fte, tf)
      bonus    == addiction_board_bonus(i.addiction_board_certified,
                                        i.status_fte, tf)
  IN  [time_fraction         |-> tf,
       hm_fte                |-> hm,
       hospitalist_fte       |-> actual,
       clinical_fte          |-> clinical,
       shift_equivalents     |-> se,
       addiction_fte         |-> addiction_fte(i.shift_days),
       shift_breakdown       |-> totals.shift_breakdown,
       total_sos_value       |-> totals.total_sos_value,
       sos_multiplier        |-> mult,
       a_component           |-> a_component(i.academic_rank),
       a_fte_adjusted        |-> a_adj,
       b_base                |-> STRENGTH_OF_SCHEDULE_BASE,
       b_adjusted            |-> b_adjusted(mult),
       experience_years      |-> experience_years(i.graduation_year),
       experience_adjustment |->
         experience_years(i.graduation_year) * EXPERIENCE_ADJUSTMENT_PER_YEAR,
       b_with_experience     |-> bwe,
       b_fte_adjusted        |-> b_adj,
       other_dept_comp       |-> odc,
       addiction_board_bonus |-> bonus,
       other_stipend         |-> i.other_stipend,
       total_compensation    |->
         AmtAdd(AmtAdd(AmtAdd(AmtAdd(AmtOfRat(a_adj), AmtInt(b_adj)), odc),
                       bonus), AmtInt(i.other_stipend))]


(***************************************************************************)
(* Inputs                                                                  *)
(***************************************************************************)
\* Oldest graduation considered, in years before the fiscal year
MaxExperience == 6

\* Most Addiction days in a schedule
MaxAddictionDays == 2

\* Nights beyond NIGHT_STANDARD_THRESHOLD in the longest night schedule
MaxPremiumNights == 7

StartDates ==
  {FISCAL_YEAR_START - 1, FISCAL_YEAR_START, FISCAL_YEAR_START + 200,
   FISCAL_YEAR_END, FISCAL_YEAR_END + 1}

LeaveDays == {0, 1, TOTAL_FY_DAYS}

\* <<start_date, leave_days>>: a full year, a late start with leave, no day at all
FewDates ==
  {<<FISCAL_YEAR_START, 0>>, <<FISCAL_YEAR_START + 200, 1>>,
   <<FISCAL_YEAR_END + 1, 0>>}

StatusFtes == {Rat(0, 1), Rat(1, 2), Rat(1, 1)}

NonClinicalFtes == {Rat(0, 1), Rat(1, 2)}

OtherDeptFtes == {Rat(0, 1), Rat(1, 2)}

Ranks == DOMAIN A_COMPONENT_BY_RANK \cup {"Nonexistent Rank"}

GraduationYears ==
  {FISCAL_YEAR_START_year - MaxExperience, FISCAL_YEAR_START_year}

Stipends == {0, 1000}

EmptyDict == [k \in {} |-> 0]

\* The day counts of the catalog's day shifts
DayShiftChoices ==
  { EmptyDict,
    [k \in {"Teaching", "Direct Care Days", "Women & Families Days",
            "Episcopal", "Clinic"} |-> 0],
    "Teaching" :> 92,
    ("Teaching" :> 42) @@ ("Direct Care Days" :> 113),
    ("Teaching" :> 0) @@ ("Women & Families Days" :> 5) @@
      ("Episcopal" :> 4) @@ ("Clinic" :> 3) }

NightChoices ==
  { EmptyDict, "Nights" :> 0, "Nights" :> 1,
    "Nights" :> NIGHT_STANDARD_THRESHOLD,
    "Nights" :> (NIGHT_STANDARD_THRESHOLD + 1),
    "Nights" :> (NIGHT_STANDARD_THRESHOLD + MaxPremiumNights) }

AddictionChoices ==
  { EmptyDict } \cup { "Addiction" :> a : a \in 0..MaxAddictionDays }

\* A key that is not a shift type of the catalog
UnknownChoices == { EmptyDict, "Weekend Call" :> 5 }

\* Employment inputs in full, one schedule
TimeInputs ==
  { [start_date |-> sd, leave_days |-> ld, status_fte |-> s,
     non_clinical_fte |-> nc, other_dept_fte |-> o,
     academic_rank |-> "Assistant Professor",
     shift_days |-> ("Teaching" :> 92) @@ a,
     graduation_year |-> FISCAL_YEAR_START_year,
     addiction_board_certified |-> c, other_stipend |-> 0] :
    sd \in StartDates, ld \in LeaveDays, s \in StatusFtes,
    nc \in NonClinicalFtes, o \in OtherDeptFtes, a \in AddictionChoices,
    c \in BOOLEAN }

\* Every rank, certification and stipend, over a few dates
PayInputs ==
  { [start_date |-> t[1], leave_days |-> t[2], status_fte |-> s,
     non_clinical_fte |-> Rat(0, 1), other_dept_fte |-> o,
     academic_rank |-> r, shift_days |-> ("Teaching" :> 92) @@ a,
     graduation_year |-> FISCAL_YEAR_START_year,
     addiction_board_certified |-> c, other_stipend |-> st] :
    t \in FewDates, s \in StatusFtes, o \in OtherDeptFtes, r \in Ranks,
    a \in AddictionChoices, c \in BOOLEAN, st \in Stipends }

\* Every schedule shape, over a few dates
ScheduleInputs ==
  { [start_date |-> t[1], leave_days |-> t[2], status_fte |-> s,
     non_clinical_fte |-> nc, other_dept_fte |-> o,
     academic_rank |-> "Assistant Professor",
     shift_days |-> d @@ n @@ a @@ u, graduation_year |-> g,
     addiction_board_certified |-> FALSE, other_stipend |-> 0] :
    t \in FewDates, s \in StatusFtes, nc \in NonClinicalFtes,
    o \in OtherDeptFtes, d \in DayShiftChoices, n \in NightChoices,
    a \in {EmptyDict, "Addiction" :> 0, "Addiction" :> MaxAddictionDays},
    u \in UnknownChoices, g \in GraduationYears }

Inputs == TimeInputs \cup PayInputs \cup ScheduleInputs

\* FTE fractions above 1, which the function accepts: it validates no input
UnvalidatedFtes == {Rat(0, 1), Rat(1, 2), Rat(3, 2)}

UnvalidatedInputs ==
  { [start_date |-> t[1], leave_days |-> t[2], status_fte |-> s,
     non_clinical_fte |-> nc, other_dept_fte |-> o,
     academic_rank |-> "Assistant Professor",
     shift_days |-> ("Teaching" :> 92) @@ a,
     graduation_year |-> FISCAL_YEAR_START_year,
     addiction_board_certified |-> FALSE, other_stipend |-> 0] :
    t \in FewDates, s \in UnvalidatedFtes, nc \in UnvalidatedFtes,
    o \in UnvalidatedFtes, a \in AddictionChoices }

\* The inputs that are run a second time with other dates
DatesInputs ==
  { [start_date |-> sd, leave_days |-> ld, status_fte |-> s,
     non_clinical_fte |-> nc, other_dept_fte |-> o,
     academic_rank |-> "Assistant Professor",
     shift_days |-> d, graduation_year |-> g,
     addiction_board_certified |-> FALSE, other_stipend |-> 0] :
    sd \in StartDates, ld \in LeaveDays, s \in StatusFtes,
    nc \in NonClinicalFtes, o \in OtherDeptFtes,
    d \in { EmptyDict, "Teaching" :> 92,
            ("Teaching" :> 42) @@ ("Direct Care Days" :> 113) @@
              ("Nights" :> (NIGHT_STANDARD_THRESHOLD + MaxPremiumNights)) @@
              ("Addiction" :> MaxAddictionDays) },
    g \in GraduationYears }

\* Everything the form holds besides academic rank and appointment fraction
RerunContexts ==
  { [start_date |-> t[1], leave_days |-> t[2],
     non_clinical_fte |-> f[1], other_dept_fte |-> f[2],
     shift_days |-> d,
     graduation_year |-> x[1], addiction_board_certified |-> x[2],
     other_stipend |-> x[3]] :
    t \in {<<0, 0>>, <<200, 1>>},
    f \in {<<Rat(0, 1), Rat(0, 1)>>, <<Rat(1, 2), Rat(1, 2)>>},
    d \in { EmptyDict,
            ("Teaching" :> 42) @@ ("Direct Care Days" :> 113) @@
              ("Nights" :> (NIGHT_STANDARD_THRESHOLD + MaxPremiumNights)) @@
              ("Addiction" :> MaxAddictionDays) },
    x \in {<<FISCAL_YEAR_START_year, FALSE, 0>>,
           <<FISCAL_YEAR_START_year - MaxExperience, TRUE, 1000>>} }

RerunInputs ==
  { [start_date |-> c.start_date, leave_days |-> c.leave_days,
     status_fte |-> s, non_clinical_fte |-> c.non_clinical_fte,
     other_dept_fte |-> c.other_dept_fte, academic_rank |-> r,
     shift_days |-> c.shift_days, graduation_year |-> c.graduation_year,
     addiction_board_certified |-> c.addiction_board_certified,
     other_stipend |-> c.other_stipend] :
    r \in Ranks, s \in StatusFtes, c \in RerunContexts }

(***************************************************************************)
(* The state machine: the inputs are drawn, calculate_compensation is      *)
(* called on them, and the form may call it again with other dates         *)
(***************************************************************************)
NoResult == [none |-> TRUE]

Init ==
  /\ inp \in Inputs
  /\ res = NoResult
  /\ prev = NoResult
  /\ pc = "input"

InitUnvalidated ==
  /\ inp \in Inputs \cup UnvalidatedInputs
  /\ res = NoResult
  /\ prev = NoResult
  /\ pc = "input"

InitDates ==
  /\ inp \in DatesInputs
  /\ res = NoResult
  /\ prev = NoResult
  /\ pc = "input"

InitRerun ==
  /\ inp \in RerunInputs
  /\ res = NoResult
  /\ prev = NoResult
  /\ pc = "input"

\* The call of calculate_compensation on the inputs
Calculate ==
  /\ pc = "input"
  /\ res' = calculate_compensation(inp)
  /\ pc' = "done"
  /\ UNCHANGED <<inp, prev>>

\* Start Date and/or Leave Days are changed in the form and the script calls
\* calculate_compensation again; prev keeps the call before
ChangeDates ==
  /\ pc = "done"
  /\ prev = NoResult
  /\ \E sd \in StartDates, ld \in LeaveDays :
       /\ <<sd, ld>> # <<inp.start_date, inp.leave_days>>
       /\ inp' = [inp EXCEPT !.start_date = sd, !.leave_days = ld]
       /\ res' = calculate_compensation(inp')
  /\ prev' = [inp |-> inp, res |-> res]
  /\ UNCHANGED pc

\* Any of the form's widgets are changed and the script calls
\* calculate_compensation again on the new inputs; prev keeps the call before
ChangeInputs ==
  /\ pc = "done"
  /\ prev = NoResult
  /\ \E i \in RerunInputs :
       /\ i # inp
       /\ inp' = i
       /\ res' = calculate_compensation(i)
  /\ prev' = [inp |-> inp, res |-> res]
  /\ UNCHANGED pc

Next == Calculate

NextDates == Calculate \/ ChangeDates

Spec == Init /\ [][Next]_vars

SpecDates == InitDates /\ [][NextDates]_vars

SpecUnvalidated == InitUnvalidated /\ [][Next]_vars

NextRerun == Calculate \/ ChangeInputs

SpecRerun == InitRerun /\ [][NextRerun]_vars


(***************************************************************************)
(* Claims                                                                  *)
(***************************************************************************)
Addiction(shift_days) == Get(shift_days, "Addiction", 0)

Nights(shift_days) == Get(shift_days, "Nights", 0)

NightRows == {"Standard Nights (first 21)", "Premium Nights (after 21)"}

\* The sum of sos_value over the rows named by keys
RECURSIVE SumSos(_, _)
SumSos(rows, keys) ==
  IF keys = {} THEN RatInt(0)
  ELSE LET k == CHOOSE x \in keys : TRUE
       IN  RatAdd(rows[k].sos_value, SumSos(rows, keys \ {k}))

\* C1 as stated: with status_fte = 0 every component is 0, other_dept_comp
\* included, and total_compensation is other_stipend alone.
C1_ZeroStatusTotalIsStipend ==
  (pc = "done" /\ inp.status_fte = RatInt(0)) =>
    /\ res.a_fte_adjusted = RatInt(0)
    /\ res.hm_fte = RatInt(0)
    /\ res.b_fte_adjusted = 0
    /\ AmtIsZero(res.other_dept_comp)
    /\ AmtIsZero(res.addiction_board_bonus)
    /\ AmtEq(res.total_compensation, AmtInt(inp.other_stipend))

\* C1 amended: with status_fte = 0, a_fte_adjusted, hm_fte, b_fte_adjusted and
\* addiction_board_bonus are 0 and total_compensation is other_dept_comp +
\* other_stipend; other_dept_comp is 0 exactly when other_dept_fte and the
\* Addiction days are both 0 or the time fraction is 0.
C1_ZeroStatus ==
  (pc = "done" /\ inp.status_fte = RatInt(0)) =>
    /\ res.a_fte_adjusted = RatInt(0)
    /\ res.hm_fte = RatInt(0)
    /\ res.b_fte_adjusted = 0
    /\ AmtIsZero(res.addiction_board_bonus)
    /\ AmtEq(res.total_compensation,
             AmtAdd(res.other_dept_comp, AmtInt(inp.other_stipend)))
    /\ AmtIsZero(res.other_dept_comp) <=>
         \/ inp.other_dept_fte.n = 0 /\ Addiction(inp.shift_days) = 0
         \/ res.time_fraction.n = 0

C1_Witness ==
  /\ pc = "done"
  /\ inp.status_fte = RatInt(0)
  /\ inp.other_dept_fte.n > 0
  /\ Addiction(inp.shift_days) > 0
  /\ res.time_fraction.n > 0
  /\ inp.addiction_board_certified
  /\ inp.other_stipend > 0
  /\ inp.academic_rank = "Professor"
  /\ ~AmtIsZero(res.other_dept_comp)

\* C2 as stated: b_fte_adjusted is a multiple of 100 within 50 of
\* b_with_experience * hm_fte - 105000 * status_fte, and when that value is
\* exactly halfway between two multiples of 100 the result is the one with the
\* larger absolute value.
C2_RoundHalfAwayFromZero ==
  pc = "done" =>
    LET u    == b_unrounded(res.b_with_experience, res.hm_fte, inp.status_fte)
        q    == AmtInt(res.b_fte_adjusted)
        dist == AmtAbs(AmtSub(q, u))
    IN  /\ res.b_fte_adjusted % 100 = 0
        /\ AmtCmp(dist, AmtInt(50)) <= 0
        /\ AmtCmp(dist, AmtInt(50)) = 0 => AmtCmp(AmtAbs(q), AmtAbs(u)) > 0

AllShiftDaysZero == \A k \in DOMAIN inp.shift_days : inp.shift_days[k] = 0

\* C3 as stated: when every entry of shift_days is zero, shift_equivalents = 0
\* and sos_multiplier = 1.0.
C3_NoShiftsNoShiftEquivalents ==
  (pc = "done" /\ AllShiftDaysZero) =>
    /\ res.shift_equivalents = 0
    /\ res.sos_multiplier = RatInt(1)

\* C3 amended: when every entry of shift_days is zero, total_sos_value = 0 and
\* sos_multiplier is 1.0 if shift_equivalents = 0 and 0 otherwise;
\* shift_equivalents comes from the FTE inputs and the dates alone and is 0
\* exactly when clinical_fte * 183 < 1/2.
C3_NoShifts ==
  (pc = "done" /\ AllShiftDaysZero) =>
    /\ res.total_sos_value = RatInt(0)
    /\ res.sos_multiplier =
         (IF res.shift_equivalents = 0 THEN RatInt(1) ELSE RatInt(0))
    /\ res.shift_equivalents = 0 <=>
         2 * BASE_SHIFT_EQUIVALENTS * res.clinical_fte.n < res.clinical_fte.d

C3_Witness ==
  /\ pc = "done"
  /\ AllShiftDaysZero
  /\ {"Teaching", "Nights", "Addiction"} \subseteq DOMAIN inp.shift_days
  /\ res.shift_equivalents = BASE_SHIFT_EQUIVALENTS
  /\ res.sos_multiplier = RatInt(0)

\* C4 as stated: a second call that differs from the first only in start_date
\* and/or leave_days returns the same b_fte_adjusted.
C4_DatesNeverChangeB ==
  prev # NoResult => res.b_fte_adjusted = prev.res.b_fte_adjusted

\* C4 amended: two calls that differ only in start_date and/or leave_days
\* return the same b_fte_adjusted whenever they return the same
\* shift_equivalents (the dates reach component B through shift_equivalents,
\* the denominator of the SoS multiplier, and through nothing else).
C4_DatesChangeBOnlyViaShiftEquivalents ==
  (prev # NoResult /\ res.shift_equivalents = prev.res.shift_equivalents) =>
    res.b_fte_adjusted = prev.res.b_fte_adjusted

C4_Witness ==
  /\ prev # NoResult
  /\ res.time_fraction # prev.res.time_fraction
  /\ res.shift_equivalents = prev.res.shift_equivalents
  /\ res.shift_equivalents > 0
  /\ res.total_sos_value.n > 0
  /\ res.b_fte_adjusted # 0

\* C5: shift_equivalents is the non-negative integer nearest to
\* clinical_fte * 183, an exact half going up: it is the integer n with
\* n - 1/2 <= clinical_fte * 183 < n + 1/2, and clinical_fte is
\* hospitalist_fte * time_fraction.
C5_ShiftEquivalentsRoundHalfUp ==
  pc = "done" =>
    LET x == RatMul(res.clinical_fte, RatInt(BASE_SHIFT_EQUIVALENTS))
        n == res.shift_equivalents
    IN  /\ n \in Nat
        /\ res.clinical_fte = RatMul(res.hospitalist_fte, res.time_fraction)
        /\ res.clinical_fte.n >= 0
        /\ (2 * n - 1) * x.d <= 2 * x.n
        /\ 2 * x.n < (2 * n + 1) * x.d

\* clinical_fte * 183 is exactly an even integer plus one half, where rounding
\* half to even would go down
C5_Witness ==
  /\ pc = "done"
  /\ LET x == RatMul(res.clinical_fte, RatInt(BASE_SHIFT_EQUIVALENTS))
     IN  /\ x.d = 2
         /\ ((x.n - 1) \div 2) % 2 = 0
         /\ res.shift_equivalents = (x.n + 1) \div 2

\* C6: for night_days > 0 the breakdown holds the two night rows, with days
\* min(night_days, 21) at 1.5 and max(0, night_days - 21) at 1.75, the day
\* counts sum to night_days and both SoS values are part of total_sos_value;
\* for night_days = 0 neither row exists and nights add nothing.
C6_NightTiers ==
  pc = "done" =>
    LET n       == Nights(inp.shift_days)
        rows    == res.shift_breakdown
        daySum  == SumSos(rows, DOMAIN rows \ NightRows)
        std     == rows["Standard Nights (first 21)"]
        premium == rows["Premium Nights (after 21)"]
    IN  IF n > 0
        THEN /\ NightRows \subseteq DOMAIN rows
             /\ std.days = Min(n, 21)
             /\ premium.days = Max(0, n - 21)
             /\ std.days + premium.days = n
             /\ std.sos_value = Rat(3 * std.days, 2)
             /\ premium.sos_value = Rat(7 * premium.days, 4)
             /\ res.total_sos_value =
                  RatAdd(daySum, RatAdd(std.sos_value, premium.sos_value))
        ELSE /\ NightRows \cap DOMAIN rows = {}
             /\ res.total_sos_value = daySum

C6_Witness ==
  /\ pc = "done"
  /\ Nights(inp.shift_days) = 22
  /\ res.shift_breakdown["Standard Nights (first 21)"].days = 21
  /\ res.shift_breakdown["Premium Nights (after 21)"].days = 1
  /\ DOMAIN res.shift_breakdown # NightRows

\* C7: total_sos_value is the sum of sos_value over all rows of
\* shift_breakdown, zero-day rows included, and the rows are exactly the
\* catalog types other than "Addiction" that are keys of shift_days, plus the
\* two night rows when night_days > 0: "Addiction", keys outside the catalog
\* and absent types have no row.
C7_TotalSosIsSumOfRows ==
  pc = "done" =>
    LET rows == res.shift_breakdown
    IN  /\ res.total_sos_value = SumSos(rows, DOMAIN rows)
        /\ DOMAIN rows \ NightRows =
             (DOMAIN inp.shift_days \cap DOMAIN SHIFT_TYPES) \ {"Addiction"}

C7_Witness ==
  /\ pc = "done"
  /\ Addiction(inp.shift_days) > 0
  /\ DOMAIN inp.shift_days \ (DOMAIN SHIFT_TYPES \cup {"Nights"}) # {}
  /\ "Direct Care Days" \notin DOMAIN inp.shift_days
  /\ \E k \in DOMAIN res.shift_breakdown : res.shift_breakdown[k].days = 0
  /\ Nights(inp.shift_days) > 0
  /\ res.total_sos_value.n > 0

\* C8: sos_multiplier is 1.0 when shift_equivalents = 0, whatever
\* total_sos_value, and total_sos_value / shift_equivalents otherwise.
C8_SosMultiplier ==
  pc = "done" =>
    /\ res.shift_equivalents = 0 => res.sos_multiplier = RatInt(1)
    /\ res.shift_equivalents > 0 =>
         RatMul(res.sos_multiplier, RatInt(res.shift_equivalents)) =
           res.total_sos_value

\* shifts are scheduled and there are no shift equivalents
C8_Witness ==
  /\ pc = "done"
  /\ res.shift_equivalents = 0
  /\ res.total_sos_value.n > 0
  /\ res.total_sos_value # RatInt(1)
  /\ res.sos_multiplier = RatInt(1)

\* C9: hm_fte = max(0, status - other_dept - addiction_days / 183),
\* hospitalist_fte = max(0, status - non_clinical - other_dept -
\* addiction_days / 183), neither clamped from above; both and clinical_fte
\* are >= 0 and hospitalist_fte <= hm_fte.
C9_FteClamps ==
  pc = "done" =>
    LET a      == Rat(Addiction(inp.shift_days), 183)
        rawHm  == RatSub(RatSub(inp.status_fte, inp.other_dept_fte), a)
        rawAct == RatSub(rawHm, inp.non_clinical_fte)
    IN  /\ res.addiction_fte = a
        /\ res.hm_fte = (IF rawHm.n < 0 THEN RatInt(0) ELSE rawHm)
        /\ res.hospitalist_fte = (IF rawAct.n < 0 THEN RatInt(0) ELSE rawAct)
        /\ res.hm_fte.n >= 0
        /\ res.hospitalist_fte.n >= 0
        /\ res.clinical_fte.n >= 0
        /\ RatLeq(res.hospitalist_fte, res.hm_fte)

\* the clamp at zero acts on hospitalist_fte while hm_fte exceeds 1 unclamped
C9_Witness ==
  /\ pc = "done"
  /\ RatLess(RatSub(RatSub(RatSub(inp.status_fte, inp.non_clinical_fte),
                           inp.other_dept_fte),
                    Rat(Addiction(inp.shift_days), 183)), RatInt(0))
  /\ res.hospitalist_fte = RatInt(0)
  /\ RatLess(RatInt(1), res.hm_fte)

\* C10: time_fraction = max(0, days_in_fy - leave_days) / total_days with
\* days_in_fy the whole year for a start on or before the year's first day, 0
\* for a start after its last day, else the inclusive count from start_date to
\* the last day; it lies in [0, 1] and is 0 whenever leave_days >= days_in_fy.
C10_TimeFraction ==
  pc = "done" =>
    LET days == IF inp.start_date <= FISCAL_YEAR_START THEN TOTAL_FY_DAYS
                ELSE IF inp.start_date > FISCAL_YEAR_END THEN 0
                ELSE FISCAL_YEAR_END - inp.start_date + 1
        tf   == res.time_fraction
    IN  /\ tf.n * TOTAL_FY_DAYS = tf.d * Max(0, days - inp.leave_days)
        /\ 0 <= tf.n /\ tf.n <= tf.d
        /\ inp.leave_days >= days => tf = RatInt(0)
        /\ inp.start_date = FISCAL_YEAR_END => days = 1

\* a start on the last day of the fiscal year counts one day
C10_Witness ==
  /\ pc = "done"
  /\ inp.start_date = FISCAL_YEAR_END
  /\ inp.leave_days = 0
  /\ res.time_fraction = Rat(1, 365)

\* C11: a_component is the rank table's amount for a recognized academic_rank
\* and 105000 for any other value; a_fte_adjusted = a_component * status_fte
\* for every input; and two calls whose inputs agree on academic_rank and
\* status_fte return the same a_fte_adjusted, whatever else differs.
C11_ADependsOnlyOnRankAndStatus ==
  /\ pc = "done" =>
       /\ res.a_component =
            CASE inp.academic_rank = "Assistant Professor" -> 105000
              [] inp.academic_rank = "Associate Professor" -> 120750
              [] inp.academic_rank = "Professor"           -> 136500
              [] inp.academic_rank = "TFP NFP Physician"   -> 105000
              [] OTHER                                     -> 105000
       /\ res.a_fte_adjusted.n * inp.status_fte.d =
            res.a_fte_adjusted.d * res.a_component * inp.status_fte.n
  /\ (/\ prev # NoResult
      /\ prev.inp.academic_rank = inp.academic_rank
      /\ prev.inp.status_fte = inp.status_fte)
     => prev.res.a_fte_adjusted = res.a_fte_adjusted

\* two calls with the same unrecognized rank and the same half-time status,
\* every other input different and the time fractions different
C11_Witness ==
  /\ prev # NoResult
  /\ inp.academic_rank \notin DOMAIN A_COMPONENT_BY_RANK
  /\ prev.inp.academic_rank = inp.academic_rank
  /\ inp.status_fte = Rat(1, 2)
  /\ prev.inp.status_fte = inp.status_fte
  /\ prev.inp.start_date # inp.start_date
  /\ prev.inp.leave_days # inp.leave_days
  /\ prev.inp.non_clinical_fte # inp.non_clinical_fte
  /\ prev.inp.other_dept_fte # inp.other_dept_fte
  /\ prev.inp.shift_days # inp.shift_days
  /\ prev.res.time_fraction # res.time_fraction
  /\ prev.res.b_fte_adjusted # res.b_fte_adjusted
  /\ res.a_component = 105000
  /\ res.a_fte_adjusted = RatInt(52500)

====
